---------------------------- MODULE Spec2Model ----------------------------
(***************************************************************************)
(* A model of pyan's command-line driver, src/pyan/pyan.py:                *)
(*   process_command_line  (argparse configuration, lines 23-198)          *)
(*   get_out_format        (lines 201-219)                                 *)
(*   main                  (lines 222-298)                                 *)
(*                                                                         *)
(* Text is modelled as a sequence of one-character strings, so that        *)
(* os.path.splitext is computed and not assumed.  An optional value        *)
(* (Python None or a value) is a sequence of length 0 or 1.                *)
(*                                                                         *)
(* A command line is abstracted to: the set of option flags that occur on  *)
(* it, the value of -f (if any) and the list of positional patterns.  All  *)
(* flags are store_true / store_false actions, whose effect and whose      *)
(* conflicts do not depend on position or repetition.  -l LOG and          *)
(* --dot-rankdir carry strings that main only passes through; they are     *)
(* left out.                                                               *)
(***************************************************************************)
EXTENDS Integers, Sequences, FiniteSets, TLC

VARIABLES
    pc,            \* position of main (or of the get_out_format harness)
    argv,          \* the command line: [flags, outfile, patterns]
    fs,            \* files that exist in the working directory
    dotFound,      \* whether Graphviz' "dot" executable is on PATH
    args,          \* <<>> or <<Namespace returned by process_command_line>>
    filenames,     \* main's local "filenames" after glob expansion
    graph_options, \* <<>> or <<main's graph_options dict>>
    out_format,    \* <<>> or <<value of main's out_format>>
    logLevel,      \* level set on the logger
    calls,         \* calls made to the collaborators, in order
    visitorFiles,  \* <<>> or <<file list given to CallGraphVisitor>>
    passedOptions, \* <<>> or <<options given to VisualGraph.from_visitor>>
    writer,        \* <<>> or <<[cls, fmt] of the writer constructed>>
    outcome        \* how the run ended ("" while running)

vars == <<pc, argv, fs, dotFound, args, filenames, graph_options, out_format,
          logLevel, calls, visitorFiles, passedOptions, writer, outcome>>

---------------------------------------------------------------------------
(* Bounds *)

MaxFlags    == 2   \* at most this many distinct option flags on a command line
MaxPatterns == 1   \* at most this many positional filename patterns
MaxNameLen  == 5   \* longest output file name given to get_out_format alone

---------------------------------------------------------------------------
(* Text *)

None == <<>>
Some(x) == <<x>>

DOT == <<"d", "o", "t">>
SVG == <<"s", "v", "g">>
PNG == <<"p", "n", "g">>
TGF == <<"t", "g", "f">>
YED == <<"y", "e", "d">>

KnownFormats == {DOT, TGF, YED, SVG, PNG}

\* p[a:b] of Python for 0-based half-open bounds 0 <= a <= b <= len(p)
Slice(p, a, b) == [i \in 1..(b - a) |-> p[a + i]]

\* p.rfind(c): 0-based index of the last occurrence of c, or -1
RFind(p, c) ==
    LET occ == {i \in 1..Len(p) : p[i] = c}
    IN  IF occ = {} THEN -1
        ELSE (CHOOSE i \in occ : \A j \in occ : j <= i) - 1

\* the "skip all leading dots" loop of genericpath._splitext
RECURSIVE SplitextLoop(_, _, _)
SplitextLoop(p, filenameIndex, dotIndex) ==
    IF filenameIndex < dotIndex
    THEN IF p[filenameIndex + 1] # "."
         THEN <<Slice(p, 0, dotIndex), Slice(p, dotIndex, Len(p))>>
         ELSE SplitextLoop(p, filenameIndex + 1, dotIndex)
    ELSE <<p, <<>>>>

\* os.path.splitext(p) (posixpath): <<root, ext>>
Splitext(p) ==
    LET sepIndex == RFind(p, "/")
        dotIndex == RFind(p, ".")
    IN  IF dotIndex > sepIndex
        THEN SplitextLoop(p, sepIndex + 1, dotIndex)
        ELSE <<p, <<>>>>

---------------------------------------------------------------------------
(* process_command_line *)

FormatFlags  == {"--dot", "--tgf", "--yed", "--svg", "--png"}
ShapingFlags == {"-d", "-n", "-u", "-N", "-G", "-g", "-c", "-e", "-a"}
VerboseFlags == {"-v", "-V"}
Flags        == FormatFlags \cup ShapingFlags \cup VerboseFlags

\* the groups made with parser.add_mutually_exclusive_group(); the first
\* variant lacks grouped_group
ExclusiveGroups_NoGrouped ==
    {FormatFlags, {"-d", "-n"}, {"-u", "-N"}}

ExclusiveGroups ==
    {FormatFlags, {"-d", "-n"}, {"-u", "-N"}, {"-G", "-g"}}

\* parse_args calls parser.error (SystemExit 2): a positional with nargs="+"
\* is missing, or two options of one exclusive group are present
ParseFails(cl) ==
    \/ Len(cl.patterns) = 0
    \/ \E grp \in ExclusiveGroups :
          \E a, b \in grp : a # b /\ a \in cl.flags /\ b \in cl.flags

\* the Namespace parse_args returns
Namespace(cl) ==
    [ filename      |-> cl.patterns,
      dot           |-> "--dot" \in cl.flags,
      tgf           |-> "--tgf" \in cl.flags,
      yed           |-> "--yed" \in cl.flags,
      svg           |-> "--svg" \in cl.flags,
      png           |-> "--png" \in cl.flags,
      outfilename   |-> cl.outfile,
      draw_defines  |-> ~("-n" \in cl.flags),
      draw_uses     |-> ~("-N" \in cl.flags),
      grouped_alt   |-> "-G" \in cl.flags,
      grouped       |-> "-g" \in cl.flags,
      colored       |-> "-c" \in cl.flags,
      nested_groups |-> "-e" \in cl.flags,
      annotated     |-> "-a" \in cl.flags,
      verbose       |-> "-v" \in cl.flags,
      very_verbose  |-> "-V" \in cl.flags ]

---------------------------------------------------------------------------
(* get_out_format *)

\* lines 202-213: the and/or chain; <<>> stands for the falsy result
SwitchFormat(a) ==
    IF a.dot THEN DOT
    ELSE IF a.svg THEN SVG
    ELSE IF a.png THEN PNG
    ELSE IF a.tgf THEN TGF
    ELSE IF a.yed THEN YED
    ELSE <<>>

\* truth value of args.outfilename: None and "" are falsy
Truthy(opt) == opt # None /\ opt[1] # <<>>

\* a slip that lets the extension of FILE override a format switch
get_out_format_FilenameFirst(a) ==
    LET ext == IF Truthy(a.outfilename)
               THEN Splitext(a.outfilename[1])[2] ELSE <<>>
        f0  == IF ext = <<>> THEN <<>> ELSE Slice(ext, 1, Len(ext))
        f1  == IF f0 = <<>> THEN SwitchFormat(a) ELSE f0
    IN  IF f1 = <<>> THEN DOT ELSE f1

get_out_format(a) ==
    LET f0 == SwitchFormat(a)
        f1 == IF Truthy(a.outfilename) /\ f0 = <<>>
              THEN LET ext == Splitext(a.outfilename[1])[2]
                   IN  IF ext = <<>> THEN <<>> ELSE Slice(ext, 1, Len(ext))
              ELSE f0
    IN  IF f1 = <<>> THEN DOT ELSE f1

---------------------------------------------------------------------------
(* The environment of a run *)

\* the working directory holds some of these files; the sequence is the
\* order of their names
FileOrder == <<"a.py", "b.py">>
Files     == {FileOrder[i] : i \in 1..Len(FileOrder)}

\* positional arguments: a wildcard, a plain name
Patterns == {"*.py", "a.py"}

\* values of -f FILE on a run of main
OutFileArgs ==
    { None,
      Some(<<>>),
      Some(<<"o">>),
      Some(<<"o", ".", "s", "v", "g">>),
      Some(<<"o", ".", "y", "e", "d">>),
      Some(<<"o", ".", "x">>),
      Some(<<".", "p", "n", "g">>) }

\* characters of the file names given to get_out_format alone
NameChars == {"d", "o", "t", ".", "/"}

SeqsUpTo(S, n) == UNION {[1..k -> S] : k \in 0..n}

CommandLines ==
    [ flags    : {F \in SUBSET Flags : Cardinality(F) <= MaxFlags},
      outfile  : OutFileArgs,
      patterns : SeqsUpTo(Patterns, MaxPatterns) ]

\* fnmatch of a file name against a pattern
Matches(pattern, file) == pattern = "*.py" \/ pattern = file

\* the orders in which the directory can be enumerated (os.scandir gives
\* the entries in arbitrary order)
Listings(dir) ==
    {l \in [1..Cardinality(dir) -> dir] : \A f \in dir : \E i \in DOMAIN l : l[i] = f}

\* the enumeration in the order of the names
RECURSIVE SortedListing(_, _)
SortedListing(dir, i) ==
    IF i > Len(FileOrder) THEN <<>>
    ELSE (IF FileOrder[i] \in dir THEN <<FileOrder[i]>> ELSE <<>>)
         \o SortedListing(dir, i + 1)

\* glob(pattern): the matching entries, in the order they are enumerated
RECURSIVE Glob(_, _)
Glob(pattern, listing) ==
    IF listing = <<>> THEN <<>>
    ELSE (IF Matches(pattern, Head(listing)) THEN <<Head(listing)>> ELSE <<>>)
         \o Glob(pattern, Tail(listing))

\* line 228: [y for x in filenames for y in glob(x)]
RECURSIVE Expand(_, _)
Expand(patterns, listing) ==
    IF patterns = <<>> THEN <<>>
    ELSE Glob(Head(patterns), listing) \o Expand(Tail(patterns), listing)

---------------------------------------------------------------------------
(* main *)

\* lines 230-231, without the assignment
ApplyNested_Skip(a) == a

\* lines 230-231: if args.nested_groups: args.grouped = True
ApplyNested(a) ==
    IF a.nested_groups THEN [a EXCEPT !.grouped = TRUE] ELSE a

\* lines 233-241 with two entries exchanged
GraphOptions_Swapped(a) ==
    [ draw_defines  |-> a.draw_defines,
      draw_uses     |-> a.draw_uses,
      colored       |-> a.annotated,
      grouped_alt   |-> a.grouped_alt,
      grouped       |-> a.grouped,
      nested_groups |-> a.nested_groups,
      annotated     |-> a.colored ]

\* lines 233-241: the graph_options dict
GraphOptions(a) ==
    [ draw_defines  |-> a.draw_defines,
      draw_uses     |-> a.draw_uses,
      colored       |-> a.colored,
      grouped_alt   |-> a.grouped_alt,
      grouped       |-> a.grouped,
      nested_groups |-> a.nested_groups,
      annotated     |-> a.annotated ]

\* lines 247-252
LevelOf(a) ==
    IF a.very_verbose THEN "DEBUG"
    ELSE IF a.verbose THEN "INFO"
    ELSE "WARN"

Init ==
    /\ pc = "start"
    /\ argv \in CommandLines
    /\ fs \in SUBSET Files
    /\ dotFound \in BOOLEAN
    /\ args = None
    /\ filenames = <<>>
    /\ graph_options = None
    /\ out_format = None
    /\ logLevel = "NOTSET"
    /\ calls = <<>>
    /\ visitorFiles = None
    /\ passedOptions = None
    /\ writer = None
    /\ outcome = ""

\* line 223: args = process_command_line(sys.argv)
ProcessCommandLine ==
    /\ pc = "start"
    /\ IF ParseFails(argv)
       THEN /\ pc' = "exit"
            /\ outcome' = "usage_error"
            /\ args' = args
       ELSE /\ pc' = "glob"
            /\ args' = Some(Namespace(argv))
            /\ outcome' = outcome
    /\ UNCHANGED <<argv, fs, dotFound, filenames, graph_options, out_format,
                   logLevel, calls, visitorFiles, passedOptions, writer>>

\* lines 225-228: the length test precedes the expansion; its branch uses
\* the name "parser", which main does not define
MainGlob ==
    /\ pc = "glob"
    /\ IF Len(args[1].filename) = 0
       THEN /\ pc' = "exit"
            /\ outcome' = "NameError"
            /\ filenames' = filenames
       ELSE /\ \E listing \in Listings(fs) :
                  filenames' = Expand(args[1].filename, listing)
            /\ pc' = "configure"
            /\ outcome' = outcome
    /\ UNCHANGED <<argv, fs, dotFound, args, graph_options, out_format,
                   logLevel, calls, visitorFiles, passedOptions, writer>>

\* lines 230-256: grouping fix-up, graph_options, out_format, logger
MainConfigure ==
    /\ pc = "configure"
    /\ args' = Some(ApplyNested(args[1]))
    /\ graph_options' = Some(GraphOptions(args'[1]))
    /\ out_format' = Some(get_out_format(args'[1]))
    /\ logLevel' = LevelOf(args'[1])
    /\ pc' = "analyze"
    /\ UNCHANGED <<argv, fs, dotFound, filenames, calls, visitorFiles,
                   passedOptions, writer, outcome>>

\* line 258: v = CallGraphVisitor(filenames, logger)
MainAnalyze ==
    /\ pc = "analyze"
    /\ calls' = Append(calls, "CallGraphVisitor")
    /\ visitorFiles' = Some(filenames)
    /\ pc' = "visgraph"
    /\ UNCHANGED <<argv, fs, dotFound, args, filenames, graph_options,
                   out_format, logLevel, passedOptions, writer, outcome>>

\* line 259: graph = VisualGraph.from_visitor(v, options=graph_options, ...)
MainVisualGraph ==
    /\ pc = "visgraph"
    /\ calls' = Append(calls, "VisualGraph.from_visitor")
    /\ passedOptions' = graph_options
    /\ pc' = "writer"
    /\ UNCHANGED <<argv, fs, dotFound, args, filenames, graph_options,
                   out_format, logLevel, visitorFiles, writer, outcome>>

\* the constructor of class cls returns a writer
Construct(cls, fmt) ==
    /\ calls' = Append(calls, cls)
    /\ writer' = Some([cls |-> cls, fmt |-> fmt])
    /\ pc' = "run"
    /\ outcome' = outcome

\* lines 261-296 with the final else falling back to the dot writer
MainMakeWriter_DefaultDot ==
    /\ pc = "writer"
    /\ LET fmt == out_format[1] IN
       IF fmt = TGF THEN Construct("TgfWriter", fmt)
       ELSE IF fmt = YED THEN Construct("YedWriter", fmt)
       ELSE IF fmt \in {SVG, PNG}
       THEN IF dotFound
            THEN Construct("DotRenderer", fmt)
            ELSE /\ calls' = Append(calls, "DotRenderer")
                 /\ outcome' = "no_dot_message"
                 /\ pc' = "exit"
                 /\ writer' = writer
       ELSE Construct("DotWriter", fmt)
    /\ UNCHANGED <<argv, fs, dotFound, args, filenames, graph_options,
                   out_format, logLevel, visitorFiles, passedOptions>>

\* lines 261-296 with the renderer constructed outside any try, and for
\* the dot format as well
MainMakeWriter_NoTry ==
    /\ pc = "writer"
    /\ LET fmt == out_format[1] IN
       IF fmt = TGF THEN Construct("TgfWriter", fmt)
       ELSE IF fmt = YED THEN Construct("YedWriter", fmt)
       ELSE IF fmt \in {DOT, SVG, PNG}
       THEN IF dotFound
            THEN Construct("DotRenderer", fmt)
            ELSE /\ calls' = Append(calls, "DotRenderer")
                 /\ outcome' = "NoDotError"
                 /\ pc' = "exit"
                 /\ writer' = writer
       ELSE /\ outcome' = "cannot_determine_message"
            /\ pc' = "exit"
            /\ UNCHANGED <<calls, writer>>
    /\ UNCHANGED <<argv, fs, dotFound, args, filenames, graph_options,
                   out_format, logLevel, visitorFiles, passedOptions>>

\* lines 261-296: choose and construct the writer.  DotRenderer raises
\* NoDotError when no "dot" executable is found; main prints and returns
MainMakeWriter ==
    /\ pc = "writer"
    /\ LET fmt == out_format[1] IN
       IF fmt = DOT THEN Construct("DotWriter", fmt)
       ELSE IF fmt = TGF THEN Construct("TgfWriter", fmt)
       ELSE IF fmt = YED THEN Construct("YedWriter", fmt)
       ELSE IF fmt \in {SVG, PNG}
       THEN IF dotFound
            THEN Construct("DotRenderer", fmt)
            ELSE /\ calls' = Append(calls, "DotRenderer")
                 /\ outcome' = "no_dot_message"
                 /\ pc' = "exit"
                 /\ writer' = writer
       ELSE /\ outcome' = "cannot_determine_message"
            /\ pc' = "exit"
            /\ UNCHANGED <<calls, writer>>
    /\ UNCHANGED <<argv, fs, dotFound, args, filenames, graph_options,
                   out_format, logLevel, visitorFiles, passedOptions>>

\* line 298 executed twice
MainRun_Twice ==
    /\ pc = "run"
    /\ calls' = calls \o <<"run", "run">>
    /\ outcome' = "ok"
    /\ pc' = "exit"
    /\ UNCHANGED <<argv, fs, dotFound, args, filenames, graph_options,
                   out_format, logLevel, visitorFiles, passedOptions, writer>>

\* line 298: writer.run()
MainRun ==
    /\ pc = "run"
    /\ calls' = Append(calls, "run")
    /\ outcome' = "ok"
    /\ pc' = "exit"
    /\ UNCHANGED <<argv, fs, dotFound, args, filenames, graph_options,
                   out_format, logLevel, visitorFiles, passedOptions, writer>>

Next ==
    \/ ProcessCommandLine
    \/ MainGlob
    \/ MainConfigure
    \/ MainAnalyze
    \/ MainVisualGraph
    \/ MainMakeWriter
    \/ MainRun

Spec == Init /\ [][Next]_vars

---------------------------------------------------------------------------
(* get_out_format on its own: every Namespace parse_args can return for    *)
(* the format switches and -f, over all short file names                   *)

FormatCommandLines ==
    [ flags    : {F \in SUBSET FormatFlags : Cardinality(F) <= 1},
      outfile  : {None} \cup {Some(n) : n \in SeqsUpTo(NameChars, MaxNameLen)},
      patterns : {<<"a.py">>} ]

InitFmt ==
    /\ pc = "fmt_call"
    /\ argv \in FormatCommandLines
    /\ fs = {}
    /\ dotFound = FALSE
    /\ args = Some(Namespace(argv))
    /\ filenames = <<>>
    /\ graph_options = None
    /\ out_format = None
    /\ logLevel = "NOTSET"
    /\ calls = <<>>
    /\ visitorFiles = None
    /\ passedOptions = None
    /\ writer = None
    /\ outcome = ""

\* line 243: out_format = get_out_format(args)
GetOutFormatCall ==
    /\ pc = "fmt_call"
    /\ out_format' = Some(get_out_format(args[1]))
    /\ pc' = "fmt_ret"
    /\ UNCHANGED <<argv, fs, dotFound, args, filenames, graph_options,
                   logLevel, calls, visitorFiles, passedOptions, writer,
                   outcome>>

NextFmt == GetOutFormatCall

SpecFmt == InitFmt /\ [][NextFmt]_vars

---------------------------------------------------------------------------
(* Properties *)

WriterClasses == {"DotWriter", "TgfWriter", "YedWriter", "DotRenderer"}

IsPrefix(s, t) == Len(s) <= Len(t) /\ \A i \in 1..Len(s) : s[i] = t[i]

Occurs(x, s) == \E i \in 1..Len(s) : s[i] = x

\* C1: the options handed to the visual graph builder never have
\* grouped_alt true together with grouped or nested_groups true
C1_ExclusiveGrouping ==
    passedOptions # None =>
        ~(/\ passedOptions[1].grouped_alt
          /\ passedOptions[1].grouped \/ passedOptions[1].nested_groups)

\* the patterns have been expanded and no file came out
GlobbedEmpty ==
    /\ args # None
    /\ pc \notin {"start", "glob"}
    /\ filenames = <<>>

\* C2: when the expansion of the patterns yields no file, the run ends with
\* a fatal error and the analyzer, the graph builder and the writers are
\* never started
C2_NoFilesFatal ==
    GlobbedEmpty =>
        /\ calls = <<>>
        /\ pc = "exit" => outcome \in {"usage_error", "NameError"}

\* C3: whenever nested_groups is true in the options passed to
\* VisualGraph.from_visitor, grouped is true in them as well
C3_NestedImpliesGrouped ==
    passedOptions # None =>
        (passedOptions[1].nested_groups => passedOptions[1].grouped)

C3_Witness ==
    /\ passedOptions # None
    /\ passedOptions[1].nested_groups
    /\ "-e" \in argv.flags
    /\ "-g" \notin argv.flags

\* the command line asks for two members of one exclusive option group
ConflictRequested ==
    \/ Cardinality(argv.flags \cap {"--dot", "--tgf", "--yed", "--svg", "--png"}) >= 2
    \/ {"-d", "-n"} \subseteq argv.flags
    \/ {"-u", "-N"} \subseteq argv.flags
    \/ {"-G", "-g"} \subseteq argv.flags

\* C4: a command line with two members of one exclusive option group makes
\* argument parsing fail, and the run ends without the analyzer, the graph
\* builder or a writer being started
C4_ConflictsRejected ==
    ConflictRequested =>
        /\ pc \in {"start", "exit"}
        /\ args = None
        /\ calls = <<>>
        /\ writer = None
        /\ pc = "exit" => outcome = "usage_error"

C4_Witness ==
    /\ {"-G", "-g"} \subseteq argv.flags
    /\ Len(argv.patterns) > 0
    /\ pc = "exit"
    /\ outcome = "usage_error"

\* C5: the file list passed to CallGraphVisitor is the same whatever order
\* the directory is enumerated in, that is, it is the list that the
\* enumeration in name order gives
C5_StableOrder ==
    visitorFiles # None =>
        visitorFiles[1] = Expand(argv.patterns, SortedListing(fs, 1))

\* the format a switch on the command line names
SwitchOf ==
    [f \in FormatFlags |->
        CASE f = "--dot" -> DOT
          [] f = "--tgf" -> TGF
          [] f = "--yed" -> YED
          [] f = "--svg" -> SVG
          [] f = "--png" -> PNG]

\* the output file name of the command line, "" when there is none
OutName == IF argv.outfile = None THEN <<>> ELSE argv.outfile[1]

\* e is the text after the last dot of the file name proper (the last path
\* component of name)
AfterLastDot(name, e) ==
    \E k \in 1..Len(name) :
        /\ name[k] = "."
        /\ e = SubSeq(name, k + 1, Len(name))
        /\ \A j \in 1..Len(e) : e[j] \notin {".", "/"}

\* e is the extension of name: name is root, a dot, then e, where e is not
\* empty and holds no dot and no slash, and the last path component of root
\* holds a character that is not a dot
IsExtension(name, e) ==
    \E k \in 1..Len(name) :
        /\ name[k] = "."
        /\ e = SubSeq(name, k + 1, Len(name))
        /\ e # <<>>
        /\ \A j \in 1..Len(e) : e[j] \notin {".", "/"}
        /\ \E m \in 1..(k - 1) :
              /\ name[m] \notin {".", "/"}
              /\ \A q \in m..(k - 1) : name[q] # "/"

\* C6 as stated: the format of the switch that is set; with no switch the
\* text after the last dot of the output file name; "dot" when there is no
\* switch and no file name or no such text; never empty
C6_TextAfterLastDot ==
    pc = "fmt_ret" =>
        /\ out_format[1] # <<>>
        /\ \A f \in FormatFlags :
              f \in argv.flags => out_format[1] = SwitchOf[f]
        /\ argv.flags \cap FormatFlags = {} =>
              IF \E e \in {SubSeq(OutName, k, Len(OutName)) : k \in 1..Len(OutName)} :
                    e # <<>> /\ AfterLastDot(OutName, e)
              THEN AfterLastDot(OutName, out_format[1])
              ELSE out_format[1] = DOT

\* C6 amended: the format of the switch that is set; with no switch the
\* extension of the output file name as os.path.splitext delimits it (the
\* text after the last dot of the last path component, where the dots that
\* begin that component start no extension); "dot" when there is no switch
\* and no file name or no extension; never empty
C6_OutFormat ==
    pc = "fmt_ret" =>
        /\ out_format[1] # <<>>
        /\ \A f \in FormatFlags :
              f \in argv.flags => out_format[1] = SwitchOf[f]
        /\ argv.flags \cap FormatFlags = {} =>
              IF \E e \in {SubSeq(OutName, k, Len(OutName)) : k \in 1..Len(OutName)} :
                    IsExtension(OutName, e)
              THEN IsExtension(OutName, out_format[1])
              ELSE out_format[1] = DOT

\* no switch, a hidden file with an extension: the extension decides
C6_Witness ==
    /\ pc = "fmt_ret"
    /\ argv.flags = {}
    /\ OutName = <<".", "o", ".", "t">>
    /\ out_format = Some(<<"t">>)

DefaultOptions ==
    [ draw_defines  |-> TRUE,
      draw_uses     |-> TRUE,
      colored       |-> FALSE,
      grouped_alt   |-> FALSE,
      grouped       |-> FALSE,
      nested_groups |-> FALSE,
      annotated     |-> FALSE ]

\* the shaping flags on the command line
ShapingGiven == argv.flags \cap ShapingFlags

\* C7: with no shaping flag the options are the defaults; each of -n, -N,
\* -c, -a, -g, -G given alone changes its own entry and no other
C7_IndependentToggles ==
    passedOptions # None =>
        /\ ShapingGiven = {} => passedOptions[1] = DefaultOptions
        /\ ShapingGiven = {"-n"} =>
              passedOptions[1] = [DefaultOptions EXCEPT !.draw_defines = FALSE]
        /\ ShapingGiven = {"-N"} =>
              passedOptions[1] = [DefaultOptions EXCEPT !.draw_uses = FALSE]
        /\ ShapingGiven = {"-c"} =>
              passedOptions[1] = [DefaultOptions EXCEPT !.colored = TRUE]
        /\ ShapingGiven = {"-a"} =>
              passedOptions[1] = [DefaultOptions EXCEPT !.annotated = TRUE]
        /\ ShapingGiven = {"-g"} =>
              passedOptions[1] = [DefaultOptions EXCEPT !.grouped = TRUE]
        /\ ShapingGiven = {"-G"} =>
              passedOptions[1] = [DefaultOptions EXCEPT !.grouped_alt = TRUE]

C7_Witness ==
    /\ passedOptions # None
    /\ ShapingGiven = {"-a"}
    /\ passedOptions[1].annotated

\* C8: the collaborators are called in the order analyzer, graph builder,
\* writer constructor, run, each at most once
C8_ForwardPipeline ==
    \E w \in WriterClasses :
        IsPrefix(calls, <<"CallGraphVisitor", "VisualGraph.from_visitor", w, "run">>)

C8_Witness ==
    /\ pc = "exit"
    /\ Len(calls) = 4
    /\ calls[4] = "run"

\* C9: when the selected format is none of dot, tgf, yed, svg, png, main
\* says that it cannot determine the format and returns; no writer is
\* constructed or run
C9_UnknownFormatNoOutput ==
    (out_format # None /\ out_format[1] \notin KnownFormats) =>
        /\ writer = None
        /\ \A i \in 1..Len(calls) : calls[i] \notin WriterClasses \cup {"run"}
        /\ pc \notin {"run"}
        /\ pc = "exit" => outcome = "cannot_determine_message"

C9_Witness ==
    /\ pc = "exit"
    /\ argv.flags \cap FormatFlags = {}
    /\ OutName = <<"o", ".", "x">>
    /\ out_format = Some(<<"x">>)
    /\ outcome = "cannot_determine_message"

\* C10: for svg and png without a "dot" executable main reports it and
\* returns normally, and no writer is run; for every other format the run
\* ends as it does when "dot" is there
C10_MissingRenderer ==
    (out_format # None /\ ~dotFound) =>
        /\ out_format[1] \in {SVG, PNG} =>
              /\ writer = None
              /\ ~Occurs("run", calls)
              /\ pc # "run"
              /\ pc = "exit" => outcome = "no_dot_message"
        /\ (out_format[1] \in {DOT, TGF, YED} /\ pc = "exit") =>
              /\ outcome = "ok"
              /\ writer # None
              /\ writer[1].cls \in {"DotWriter", "TgfWriter", "YedWriter"}
              /\ Len(calls) = 4 /\ calls[4] = "run"
        /\ (out_format[1] \notin KnownFormats /\ pc = "exit") =>
              outcome = "cannot_determine_message"

C10_Witness ==
    /\ pc = "exit"
    /\ ~dotFound
    /\ out_format = Some(SVG)
    /\ outcome = "no_dot_message"
    /\ calls = <<"CallGraphVisitor", "VisualGraph.from_visitor", "DotRenderer">>

=============================================================================
